---- MODULE Spec2Model ----
(***************************************************************************)
(* EVRP-TW: graph construction (EVRP_Graph.py), arc-flow formulation       *)
(* (EVRP_Solver.py) and route reconstruction (utility.py).                 *)
(*                                                                         *)
(* An arc label "x_i_j" is the record [i |-> i, j |-> j]; splitting the    *)
(* label on '_' and converting the two fields to int is projection on the  *)
(* record.                                                                 *)
(***************************************************************************)
EXTENDS Integers, Sequences, FiniteSets, TLC

VARIABLES
    pc,             \* position of the run
    input,          \* what main hands to Graph_EVRP_TW: node lists, parameters
    Graph,          \* the Graph_EVRP_TW object, once constructed
    Solver,         \* the EVPR_TW_Solver object, once constructed
    solution,       \* what the solving engine returned
    sequence,       \* find_and_print_routes: the arc labels, in iteration order
    end_node_idx,   \* find_and_print_routes: index of the end depot
    routes,         \* find_and_print_routes: complete routes, in order found
    visited,        \* find_and_print_routes: labels marked on the current path
    current_route,  \* the list object shared by the find_route calls of one start
    stack,          \* active find_route calls: [node, k], k = loop position
    start_k,        \* position of the loop over start nodes (line 29)
    first_run       \* route set of the previous reconstruction, <<>> if none

vars == <<pc, input, Graph, Solver, solution, sequence, end_node_idx, routes, visited, current_route, stack,
          start_k, first_run>>

\* ---------------------------------------------------------------- bounds
MaxNode == 2    \* arc labels range over node indices 0..MaxNode
MaxArcs == 4    \* at most this many labels are passed to the reconstruction
MaxCoord == 1   \* nodes lie at (0,0) .. (MaxCoord,0)
MaxTime == 4    \* ready and due times range over 0..MaxTime
MaxQ == 3       \* tank capacities range over 1..MaxQ
MaxDepots == 2     \* depot nodes handed to the graph: 1..MaxDepots
MaxCustomers == 2  \* customer nodes handed to the graph: 0..MaxCustomers
MaxStations == 2   \* station nodes handed to the graph: 0..MaxStations
MaxDummy == 2      \* RS_dummy_count ranges over 0..MaxDummy

\* EVPR_TW_Solver.__init__: default of the big-M constant
l_0 == 1000

None == [none |-> TRUE]

\* --------------------------------------------------------- graph model
\* data_parser.Node: a node as the parser hands it over
Node(type, pos, demand, window, service) ==
    [Type |-> type, Position |-> pos, Demand |-> demand, Window |-> window,
     ServiceTime |-> service]

\* Python's range(a, b) as a list
PyRange(a, b) == [k \in 1..(IF b > a THEN b - a ELSE 0) |-> a + k - 1]

\* Python's list * n
RECURSIVE Repeat(_, _)
Repeat(list, n) == IF n <= 0 THEN <<>> ELSE list \o Repeat(list, n - 1)

\* np.sqrt on the arguments that occur: positions are drawn from points whose
\* distances are whole numbers, where the floor of the root is the root
ISqrt(n) == CHOOSE r \in 0..n : r * r <= n /\ n < (r + 1) * (r + 1)

\* utility.euclidean_distance
euclidean_distance(pos1, pos2) ==
    ISqrt((pos2[1] - pos1[1]) * (pos2[1] - pos1[1])
          + (pos2[2] - pos1[2]) * (pos2[2] - pos1[2]))

\* Graph_EVRP_TW.generate_distance_matrix: the upper triangle is filled, the
\* transpose is added; indices are the 0-based graph-node indices
generate_distance_matrix(Nodes) ==
    LET n == Len(Nodes)
        upper == [i \in 0..(n - 1) |-> [j \in 0..(n - 1) |->
                    IF j >= i
                    THEN euclidean_distance(Nodes[i + 1].Position,
                                            Nodes[j + 1].Position)
                    ELSE 0]]
    IN [i \in 0..(n - 1) |-> [j \in 0..(n - 1) |-> upper[i][j] + upper[j][i]]]

\* line 22: [Depot, Customer, RS, RS_dummy, Depot_Dummy]
NodeSequence(Depot_nodes, Customer_nodes, RS_nodes, RS_dummy_count) ==
    Depot_nodes \o Customer_nodes \o Repeat(RS_nodes, RS_dummy_count)
        \o Depot_nodes

\* line 23
DepotIdx(Nodes) == <<0, Len(Nodes) - 1>>

\* line 24
CustomerIdx(Customer_nodes) == PyRange(1, 1 + Len(Customer_nodes))

\* line 25 with the stop of the range one too far
RSIdxThroughEnd(Nodes, Customer_nodes) ==
    PyRange(1 + Len(Customer_nodes), Len(Nodes))

\* line 25
RSIdx(Nodes, Customer_nodes) ==
    PyRange(1 + Len(Customer_nodes), Len(Nodes) - 1)

\* Graph_EVRP_TW.__init__
Graph_EVRP_TW(Depot_nodes, Customer_nodes, RS_nodes, parameters, RS_dummy_count) ==
    LET Nodes == NodeSequence(Depot_nodes, Customer_nodes, RS_nodes,
                              RS_dummy_count)
        dm == generate_distance_matrix(Nodes)
        n == Len(Nodes)
    IN [Depot_nodes |-> Depot_nodes,
        Customer_nodes |-> Customer_nodes,
        RS_nodes |-> RS_nodes,
        parameters |-> parameters,
        Nodes |-> Nodes,
        Depot_Idx |-> DepotIdx(Nodes),
        Customer_Idx |-> CustomerIdx(Customer_nodes),
        RS_Idx |-> RSIdx(Nodes, Customer_nodes),
        distance_matrix |-> dm,
        CustomerTW |-> [k \in 1..n |-> Nodes[k].Window],
        CustomerServiceTime |-> [k \in 1..n |-> Nodes[k].ServiceTime],
        CustomerDemand |-> [k \in 1..n |-> Nodes[k].Demand],
        Q |-> parameters.Q,
        C |-> parameters.C,
        r |-> parameters.r,
        g |-> parameters.g,
        v |-> parameters.v,
        \* every velocity drawn divides every distance drawn
        travel_time_matrix |->
            [i \in 0..(n - 1) |-> [j \in 0..(n - 1) |-> dm[i][j] \div parameters.v]]]

\* ---------------------------------------------------- arc-flow formulator
\* names of the model's variables: f"x_{i}_{j}", f"tao_{i}", f"u_{i}", f"y_{i}"
XName(a, b) == [kind |-> "x", i |-> a, j |-> b]
TaoName(a) == [kind |-> "tao", i |-> a, j |-> a]
UName(a) == [kind |-> "u", i |-> a, j |-> a]
YName(a) == [kind |-> "y", i |-> a, j |-> a]

MapSeq(list, F(_)) == [k \in 1..Len(list) |-> F(list[k])]

\* [e for e in list if e != a]
Without(list, a) == SelectSeq(list, LAMBDA e : e # a)

RECURSIVE Flatten(_)
Flatten(lists) ==
    IF lists = <<>> THEN <<>> ELSE Head(lists) \o Flatten(Tail(lists))

\* [F(a)... for a in list], the nested loops of the formulation
FlatMap(list, F(_)) == Flatten(MapSeq(list, F))

Ones(n) == [k \in 1..(IF n > 0 THEN n ELSE 0) |-> 1]
MinusOnes(n) == [k \in 1..(IF n > 0 THEN n ELSE 0) |-> -1]

\* one call of model.linear_constraints.add
Lin(names, coefs, sense, rhs) ==
    [vars |-> names, coef |-> coefs, sense |-> sense, rhs |-> rhs]

\* one variable of model.variables.add
Variable(name, obj, type, lb, ub) ==
    [name |-> name, obj |-> obj, type |-> type, lb |-> lb, ub |-> ub]

\* lines 22-55: the attributes EVPR_TW_Solver.__init__ copies from the graph
SolverAttributes(G, l0) ==
    [V_sequence |-> G.Customer_Idx,
     F_Prime_sequence |-> G.RS_Idx,
     D |-> G.Depot_Idx,
     Depot_start |-> <<0>>,
     Depot_end |-> <<Len(G.Nodes) - 1>>,
     V_Prime_N_plus_1_sequence |->
         G.Customer_Idx \o G.RS_Idx \o <<G.Depot_Idx[Len(G.Depot_Idx)]>>,
     V_Prime_0_sequence |-> <<G.Depot_Idx[1]>> \o G.Customer_Idx \o G.RS_Idx,
     V_Prime_sequence |-> G.Customer_Idx \o G.RS_Idx,
     C |-> G.C,
     Q |-> G.Q,
     h |-> G.r,
     g |-> G.g,
     l_0 |-> l0,
     distance_matrix |-> G.distance_matrix,
     model_size |-> Len(G.Nodes),
     CustomerTimeWindow |-> G.CustomerTW,
     CustomerService |-> G.CustomerServiceTime,
     CustomerDemand |-> G.CustomerDemand,
     Travel_Time |-> G.travel_time_matrix]

\* line 69
path_link_variable(S) ==
    FlatMap(PyRange(0, S.model_size),
            LAMBDA a : MapSeq(Without(PyRange(0, S.model_size), a),
                              LAMBDA b : XName(a, b)))

\* line 70
objective_function_coef(S) ==
    FlatMap(PyRange(0, S.model_size),
            LAMBDA a : MapSeq(Without(PyRange(0, S.model_size), a),
                              LAMBDA b : S.distance_matrix[a][b]))

\* line 82: the binary arc variables with their objective coefficients
ArcVariables(S) ==
    [k \in 1..Len(path_link_variable(S)) |->
        Variable(path_link_variable(S)[k], objective_function_coef(S)[k],
                 "B", 0, 1)]

\* line 88: Initial_Battery
InitialBattery(S, a) == IF a = 0 THEN S.Q ELSE 0

\* lines 85-89: time, load and battery variables with their bounds
PotentialVariables(S) ==
    FlatMap(PyRange(0, S.model_size),
            LAMBDA a :
              << Variable(TaoName(a), 0, "C", S.CustomerTimeWindow[a + 1][1],
                          S.CustomerTimeWindow[a + 1][2]),
                 Variable(UName(a), 0, "C", 0, S.C),
                 Variable(YName(a), 0, "C", InitialBattery(S, a), S.Q) >>)

\* lines 94-99 with the sense of the station constraint
CustomerCoverageAtMostOne(S) ==
    MapSeq(S.V_sequence,
           LAMBDA a :
             Lin(MapSeq(Without(S.V_Prime_N_plus_1_sequence, a),
                        LAMBDA b : XName(a, b)),
                 Ones(Len(S.V_Prime_N_plus_1_sequence) - 1), "L", 1))

\* lines 94-99: each customer has exactly one outgoing arc
CustomerCoverage(S) ==
    MapSeq(S.V_sequence,
           LAMBDA a :
             Lin(MapSeq(Without(S.V_Prime_N_plus_1_sequence, a),
                        LAMBDA b : XName(a, b)),
                 Ones(Len(S.V_Prime_N_plus_1_sequence) - 1), "E", 1))

\* lines 102-107: each station replica has at most one outgoing arc
StationVisit(S) ==
    MapSeq(S.F_Prime_sequence,
           LAMBDA a :
             Lin(MapSeq(Without(S.V_Prime_N_plus_1_sequence, a),
                        LAMBDA b : XName(a, b)),
                 Ones(Len(S.V_Prime_N_plus_1_sequence) - 1), "L", 1))

\* lines 110-117: route consistency
FlowBalance(S) ==
    MapSeq(S.V_Prime_sequence,
           LAMBDA b :
             LET in_vars == MapSeq(Without(S.V_Prime_N_plus_1_sequence, b),
                                   LAMBDA i_start : XName(b, i_start))
                 out_vars == MapSeq(Without(S.V_Prime_0_sequence, b),
                                    LAMBDA i_end : XName(i_end, b))
             IN Lin(in_vars \o out_vars,
                    Ones(Len(in_vars)) \o MinusOnes(Len(out_vars)), "E", 0))

\* line 126 without the travel time
TimeCoefNoTravel(S, a, b) == S.CustomerService[a + 1] + S.l_0

\* line 126: coefficient of x_i_j in the travel-time constraint
TimeCoef(S, a, b) == S.Travel_Time[a][b] + S.CustomerService[a + 1] + S.l_0

\* lines 122-129: tao_i - tao_j + (t_ij + s_i + l_0) x_ij <= l_0
TravelTimeCustomer(S) ==
    FlatMap(S.Depot_start \o S.V_sequence,
            LAMBDA a :
              MapSeq(Without(S.V_Prime_N_plus_1_sequence, a),
                     LAMBDA b :
                       Lin(<<TaoName(a), TaoName(b), XName(a, b)>>,
                           <<1, -1, TimeCoef(S, a, b)>>, "L", S.l_0)))

\* lines 132-139: tao_i - tao_j + (l_0 + g*Q) x_ij - g*y_i <= l_0
TravelTimeRS(S) ==
    FlatMap(S.F_Prime_sequence,
            LAMBDA a :
              MapSeq(Without(S.V_Prime_N_plus_1_sequence, a),
                     LAMBDA b :
                       Lin(<<TaoName(a), TaoName(b), XName(a, b), YName(a)>>,
                           <<1, -1, S.l_0 + S.g * S.Q, -S.g>>, "L", S.l_0)))

\* lines 143-150 with the coefficients of u_j and u_i exchanged
LoadCapacityExchanged(S) ==
    FlatMap(S.V_Prime_0_sequence,
            LAMBDA a :
              MapSeq(Without(S.V_Prime_N_plus_1_sequence, a),
                     LAMBDA b :
                       Lin(<<UName(b), UName(a), XName(a, b)>>,
                           <<-1, 1, S.C + S.CustomerDemand[a + 1]>>, "L", S.C)))

\* lines 143-150: u_j - u_i + (C + q_i) x_ij <= C
LoadCapacity(S) ==
    FlatMap(S.V_Prime_0_sequence,
            LAMBDA a :
              MapSeq(Without(S.V_Prime_N_plus_1_sequence, a),
                     LAMBDA b :
                       Lin(<<UName(b), UName(a), XName(a, b)>>,
                           <<1, -1, S.C + S.CustomerDemand[a + 1]>>, "L", S.C)))

\* line 158: coefficient of x_i_j in the battery constraint of a customer
BatteryCoef(S, a, b) == S.h * S.distance_matrix[a][b] + S.Q

\* lines 154-161: y_j - y_i + (h*d_ij + Q) x_ij <= Q
BatteryCustomer(S) ==
    FlatMap(S.V_sequence,
            LAMBDA a :
              MapSeq(Without(S.V_Prime_N_plus_1_sequence, a),
                     LAMBDA b :
                       Lin(<<YName(b), YName(a), XName(a, b)>>,
                           <<1, -1, BatteryCoef(S, a, b)>>, "L", S.Q)))

\* lines 165-172: y_j + h*d_ij x_ij <= Q
BatteryRS(S) ==
    FlatMap(S.Depot_start \o S.F_Prime_sequence,
            LAMBDA a :
              MapSeq(Without(S.V_Prime_N_plus_1_sequence, a),
                     LAMBDA b :
                       Lin(<<YName(b), XName(a, b)>>,
                           <<1, S.h * S.distance_matrix[a][b]>>, "L", S.Q)))

\* _set_constraints: the constraints in the order they are added
set_constraints(S) ==
    CustomerCoverage(S) \o StationVisit(S) \o FlowBalance(S)
        \o TravelTimeCustomer(S) \o TravelTimeRS(S) \o LoadCapacity(S)
        \o BatteryCustomer(S) \o BatteryRS(S)

\* EVPR_TW_Solver.__init__ with _initialize_model
EVPR_TW_Solver(G, l0) ==
    LET S == SolverAttributes(G, l0)
    IN [attr |-> S,
        variables |-> ArcVariables(S) \o PotentialVariables(S),
        linear_constraints |-> set_constraints(S)]

\* ------------------------------------------------- route reconstruction
Label(a, b) == [i |-> a, j |-> b]

\* x_i_j for i # j, as _set_decision_variable declares them
ArcLabels == {Label(a, b) : a, b \in 0..MaxNode} \ {Label(a, a) : a \in 0..MaxNode}

RECURSIVE DistinctSeqs(_)
DistinctSeqs(n) ==
    IF n = 0 THEN {<<>>}
    ELSE LET shorter == DistinctSeqs(n - 1)
             longest == {t \in shorter : Len(t) = n - 1}
             grown == {Append(s, l) : s \in longest, l \in ArcLabels}
         IN shorter \cup {t \in grown : \A k \in 1..(n - 1) : t[k] # t[n]}

Range(s) == {s[k] : k \in 1..Len(s)}

\* line 30: start_node.startswith('x_0_')
IsStart(label) == label.i = 0

\* line 13: j == end_node_idx
IsComplete(label, e) == label.j = e

\* line 22: next_i == j
Continues(cur, nxt) == nxt.i = cur.j

\* lines 18-22: positions of the labels the loop of find_route(cur) would
\* recurse into, scanning from position k
Candidates(seq, vis, cur, k) ==
    {n \in k..Len(seq) : seq[n] \notin vis /\ Continues(cur, seq[n])}

\* lines 29-30: positions the loop over start nodes would start a search from
StartCandidates(seq, vis, k) ==
    {n \in k..Len(seq) : IsStart(seq[n]) /\ seq[n] \notin vis}

Least(S) == CHOOSE n \in S : \A m \in S : n <= m

\* lines 13-15: the route is saved and the call returns; the label appended
\* at line 10 stays on current_route
RouteAfterComplete(route) == route

\* lines 13-15 with the label unmarked by the callee as well
VisitedAfterCompleteCleared(vis, label) == vis \ {label}

\* lines 13-15: returning from a complete route leaves visited alone
VisitedAfterComplete(vis, label) == vis

\* line 26: current_route.pop()
Pop(route) == SubSeq(route, 1, Len(route) - 1)

\* lines 23, 31: visited.add
Mark(vis, label) == vis \cup {label}

\* lines 25, 33: visited.remove
Unmark(vis, label) == vis \ {label}

\* ------------------------------------------------------- solving engine
\* The engine is given the variables (type, bounds, objective coefficient)
\* and the linear constraints (lin_expr, sense, rhs) and returns an optimal
\* assignment or reports that none exists.  All data drawn here are whole
\* numbers and every constraint on tao, u, y is a difference constraint with
\* whole bounds (a larger y only relaxes the station time constraints), so
\* a real assignment exists exactly when one with whole potentials does.
RECURSIVE LinValueFrom(_, _, _)
LinValueFrom(c, val, k) ==
    IF k > Len(c.vars) THEN 0
    ELSE c.coef[k] * val[c.vars[k]] + LinValueFrom(c, val, k + 1)

\* value of lin_expr under an assignment
LinValue(c, val) == LinValueFrom(c, val, 1)

\* senses "E" and "L" of linear_constraints.add
Holds(c, val) ==
    IF c.sense = "E" THEN LinValue(c, val) = c.rhs
    ELSE LinValue(c, val) <= c.rhs

Kinds(c) == {c.vars[k].kind : k \in 1..Len(c.vars)}

VariablesOf(M, kind) ==
    {M.variables[k] : k \in {n \in 1..Len(M.variables) :
                                 M.variables[n].name.kind = kind}}

RECURSIVE PointsOver(_)
PointsOver(V) ==
    IF V = {} THEN {<<>>}
    ELSE LET w == CHOOSE z \in V : TRUE
         IN {f @@ (w.name :> val) : f \in PointsOver(V \ {w}), val \in w.lb..w.ub}

\* the assignments of the variables of one kind that respect lb and ub
Points(M, kind) == PointsOver(VariablesOf(M, kind))

\* the constraints whose potentials are exactly of the given kinds
ConstraintsOn(M, kinds) ==
    {M.linear_constraints[k] :
        k \in {n \in 1..Len(M.linear_constraints) :
                  Kinds(M.linear_constraints[n]) \ {"x"} = kinds}}

\* the constraints by the potentials they mention, and the points of each
\* kind of potential
Prepared(M) ==
    [XC |-> ConstraintsOn(M, {}),
     UC |-> ConstraintsOn(M, {"u"}),
     YC |-> ConstraintsOn(M, {"y"}),
     TC |-> ConstraintsOn(M, {"tao"}),
     TYC |-> ConstraintsOn(M, {"tao", "y"}),
     U |-> Points(M, "u"),
     Y |-> Points(M, "y"),
     T |-> Points(M, "tao")]

\* Some tao, u, y complete x to an assignment that satisfies every bound and
\* every constraint.  No constraint mentions u together with tao or y, and
\* tao meets y only in the station time constraints.
FeasibleIn(P, x) ==
    /\ \A c \in P.XC : Holds(c, x)
    /\ \E u \in P.U : \A c \in P.UC : Holds(c, x @@ u)
    /\ IF P.TYC = {}
       THEN /\ \E y \in P.Y : \A c \in P.YC : Holds(c, x @@ y)
            /\ \E t \in P.T : \A c \in P.TC : Holds(c, x @@ t)
       ELSE \E y \in P.Y :
               /\ \A c \in P.YC : Holds(c, x @@ y)
               /\ \E t \in P.T :
                     \A c \in P.TC \cup P.TYC : Holds(c, x @@ y @@ t)

\* objective value of an assignment of the arc variables; the potentials
\* are added with objective coefficient 0 (lines 86-89)
Objective(M, x) ==
    LET arcs == SelectSeq(M.variables, LAMBDA w : w.name.kind = "x")
    IN LinValue([vars |-> MapSeq(arcs, LAMBDA w : w.name),
                 coef |-> MapSeq(arcs, LAMBDA w : w.obj)], x)

BinaryAssignments(M) == [{w.name : w \in VariablesOf(M, "x")} -> {0, 1}]

\* the assignments of the arc variables that extend to a feasible assignment
FeasibleAssignments(M) ==
    UNION {{x : x \in {z \in BinaryAssignments(M) : FeasibleIn(P, z)}} :
              P \in {Prepared(M)}}

\* the assignments of the arc variables the engine may return
OptimalAssignments(M) ==
    UNION {{x \in F : \A x2 \in F : Objective(M, x) <= Objective(M, x2)} :
              F \in {{x : x \in FeasibleAssignments(M)}}}

\* print_results lines 185-190: the labels with value > 0.5, in loop order
SelectedArcs(S, values) ==
    MapSeq(SelectSeq(path_link_variable(S), LAMBDA n : 2 * values[n] > 1),
           LAMBDA n : Label(n.i, n.j))

InitRoutes ==
    /\ pc = "search"
    /\ sequence \in DistinctSeqs(MaxArcs)
    /\ end_node_idx \in {0, MaxNode}
    /\ routes = <<>>
    /\ visited = {}
    /\ current_route = <<>>
    /\ stack = <<>>
    /\ start_k = 1
    /\ first_run = <<>>
    /\ input = None
    /\ Graph = None
    /\ Solver = None
    /\ solution = None

\* Entry of find_route(label, route) for a label just marked by the caller
\* (lines 9-15), followed, when the route is complete, by the return to the
\* caller and its visited.remove (line 25 or 33).  `rest` is the stack of
\* callers, `resume` the caller's loop position after the call.
Enter(label, route, vis, rest, resume) ==
    LET r1 == Append(route, label)
    IN IF IsComplete(label, end_node_idx)
       THEN LET v1 == VisitedAfterComplete(vis, label)
            IN /\ routes' = Append(routes, r1)
               /\ current_route' = RouteAfterComplete(r1)
               /\ IF label \in v1
                  THEN /\ visited' = Unmark(v1, label)
                       /\ pc' = pc
                  ELSE /\ visited' = v1
                       /\ pc' = "KeyError"
               /\ IF rest = <<>>
                  THEN /\ stack' = rest
                       /\ start_k' = resume
                  ELSE /\ stack' = [rest EXCEPT ![Len(rest)].k = resume]
                       /\ start_k' = start_k
       ELSE /\ routes' = routes
            /\ current_route' = r1
            /\ visited' = vis
            /\ pc' = pc
            /\ stack' = Append(IF rest = <<>> THEN rest
                               ELSE [rest EXCEPT ![Len(rest)].k = resume],
                               [node |-> label, k |-> 1])
            /\ start_k' = IF rest = <<>> THEN resume ELSE start_k

\* lines 29-33: the next start node is marked and find_route(start_node, [])
\* is entered
StartRoute ==
    /\ pc = "search"
    /\ stack = <<>>
    /\ StartCandidates(sequence, visited, start_k) # {}
    /\ LET n == Least(StartCandidates(sequence, visited, start_k))
       IN Enter(sequence[n], <<>>, Mark(visited, sequence[n]), <<>>, n + 1)
    /\ UNCHANGED <<input, Graph, Solver, solution, sequence, end_node_idx, first_run>>

\* lines 18-24: the loop of the innermost call finds the next continuation,
\* marks it and recurses
ExtendRoute ==
    /\ pc = "search"
    /\ stack # <<>>
    /\ LET top == stack[Len(stack)]
           C == Candidates(sequence, visited, top.node, top.k)
       IN /\ C # {}
          /\ Enter(sequence[Least(C)], current_route,
                   Mark(visited, sequence[Least(C)]), stack, Least(C) + 1)
    /\ UNCHANGED <<input, Graph, Solver, solution, sequence, end_node_idx, first_run>>

\* line 26 and the return: the loop of the innermost call is exhausted, the
\* route is popped, and the caller removes the label from visited
BacktrackRoute ==
    /\ pc = "search"
    /\ stack # <<>>
    /\ LET top == stack[Len(stack)]
       IN /\ Candidates(sequence, visited, top.node, top.k) = {}
          /\ IF current_route = <<>>
             THEN /\ pc' = "IndexError"
                  /\ UNCHANGED <<current_route, visited, stack>>
             ELSE /\ current_route' = Pop(current_route)
                  /\ stack' = Pop(stack)
                  /\ IF top.node \in visited
                     THEN /\ visited' = Unmark(visited, top.node)
                          /\ pc' = pc
                     ELSE /\ visited' = visited
                          /\ pc' = "KeyError"
    /\ UNCHANGED <<input, Graph, Solver, solution, sequence, end_node_idx, routes,
                   start_k, first_run>>

\* lines 35-38: no start node is left; the routes are printed
PrintRoutes ==
    /\ pc = "search"
    /\ stack = <<>>
    /\ StartCandidates(sequence, visited, start_k) = {}
    /\ pc' = "done"
    /\ UNCHANGED <<input, Graph, Solver, solution, sequence, end_node_idx,
                   routes, visited, current_route, stack, start_k, first_run>>

NextRoutes == StartRoute \/ ExtendRoute \/ BacktrackRoute \/ PrintRoutes

SpecRoutes == InitRoutes /\ [][NextRoutes]_vars

FairRoutes == SpecRoutes /\ WF_vars(NextRoutes)

\* a second call of find_and_print_routes (lines 3-5) on the same labels in
\* any iteration order, the same order included
Reorderings(seq) ==
    {[k \in 1..Len(seq) |-> seq[p[k]]] : p \in Permutations(1..Len(seq))}

Rerun ==
    /\ pc = "done"
    /\ first_run = <<>>
    /\ first_run' = <<Range(routes)>>
    /\ sequence' \in Reorderings(sequence)
    /\ routes' = <<>>
    /\ visited' = {}
    /\ current_route' = <<>>
    /\ stack' = <<>>
    /\ start_k' = 1
    /\ pc' = "search"
    /\ UNCHANGED <<input, Graph, Solver, solution, end_node_idx>>

NextRerun == NextRoutes \/ Rerun

SpecRerun == InitRoutes /\ [][NextRerun]_vars

\* ------------------------------------------------------------- main
Unsolved == [status |-> "none", values |-> <<>>, objective |-> 0]

RouteIdle ==
    /\ sequence = <<>>
    /\ end_node_idx = 0
    /\ routes = <<>>
    /\ visited = {}
    /\ current_route = <<>>
    /\ stack = <<>>
    /\ start_k = 1
    /\ first_run = <<>>

Position(px) == <<px, 0>>

\* the lists of at most n nodes of a pool
NodeLists(pool, n) == UNION {[1..k -> pool] : k \in 0..n}

\* vehicle parameters of the input file
Parameters == [Q : 1..MaxQ, C : {1}, r : {1, 2}, g : {1}, v : {1}]

Depots == {Node("d", Position(0), 0, <<ready, MaxTime>>, service) :
              ready \in {0, 1}, service \in {0, 1}}

Customers == {Node("c", Position(px), demand, <<0, due>>, service) :
                 px \in 0..MaxCoord, demand \in {0, 1, 2}, due \in 0..MaxTime,
                 service \in {0, 1}}

Stations == {Node("f", Position(px), 0, <<0, MaxTime>>, 0) : px \in 0..MaxCoord}

\* parse_file's return value: the first customer is dropped when it lies on
\* the depot (lines 109-110); no other customer is compared with the depot
parse_file(file) ==
    IF file.Customer_nodes[1].Position = file.Depot_nodes[1].Position
    THEN [file EXCEPT !.Customer_nodes = Tail(@)]
    ELSE file

\* the customer lines of the input file: none, one, or a first customer on
\* the depot followed by a second one
CustomerLines ==
    NodeLists(Customers, 1) \union
    {<<first, customer>> :
        first \in {Node("c", Position(0), 0, <<0, MaxTime>>, 0)},
        customer \in Customers}

\* main on a file with one depot whose parsed instance has at most one node
\* besides the depot
Init ==
    /\ pc = "file"
    /\ \E depot \in Depots, parameters \in Parameters,
          customers \in CustomerLines, stations \in NodeLists(Stations, 1) :
          LET file == [Depot_nodes |-> <<depot>>, Customer_nodes |-> customers,
                       RS_nodes |-> stations, parameters |-> parameters,
                       RS_dummy_count |-> 1]
          IN /\ IF customers = <<>>
                THEN TRUE
                ELSE Len(parse_file(file).Customer_nodes) + Len(stations) <= 1
             /\ input = file
    /\ Graph = None
    /\ Solver = None
    /\ solution = Unsolved
    /\ RouteIdle

\* main line 13: parse_file(file_path); Customer_nodes[0] raises on a file
\* without customer lines
Parse ==
    /\ pc = "file"
    /\ IF input.Customer_nodes = <<>>
       THEN /\ pc' = "IndexError"
            /\ UNCHANGED input
       ELSE /\ input' = parse_file(input)
            /\ pc' = "input"
    /\ UNCHANGED <<Graph, Solver, solution, sequence, end_node_idx, routes,
                   visited, current_route, stack, start_k, first_run>>

\* main line 16: Graph = Graph_EVRP_TW(...)
BuildGraph ==
    /\ pc = "input"
    /\ Graph' = Graph_EVRP_TW(input.Depot_nodes, input.Customer_nodes,
                              input.RS_nodes, input.parameters,
                              input.RS_dummy_count)
    /\ pc' = "graph"
    /\ UNCHANGED <<input, Solver, solution, sequence, end_node_idx, routes,
                   visited, current_route, stack, start_k, first_run>>

\* main line 19: Solver = EVPR_TW_Solver(Graph)
BuildSolver ==
    /\ pc = "graph"
    /\ Solver' = EVPR_TW_Solver(Graph, l_0)
    /\ pc' = "model"
    /\ UNCHANGED <<input, Graph, solution, sequence, end_node_idx, routes,
                   visited, current_route, stack, start_k, first_run>>

\* main line 20: Solver.solver()
Solve ==
    /\ pc = "model"
    /\ \E best \in {OptimalAssignments(Solver)} :
          IF best = {}
          THEN solution' = [status |-> "infeasible", values |-> <<>>,
                            objective |-> 0]
          ELSE \E x \in best :
                  solution' = [status |-> "optimal", values |-> x,
                               objective |-> Objective(Solver, x)]
    /\ pc' = "solved"
    /\ UNCHANGED <<input, Graph, Solver, sequence, end_node_idx, routes,
                   visited, current_route, stack, start_k, first_run>>

\* main line 23: print_results(Optimal_Value=True, DV_Info=False,
\* Routes=True).  get_objective_value raises when the engine has no
\* solution; an empty Routes dict is falsy and skips the reconstruction.
PrintResults ==
    /\ pc = "solved"
    /\ IF solution.status # "optimal"
       THEN /\ pc' = "CplexSolverError"
            /\ UNCHANGED <<sequence, end_node_idx>>
       ELSE LET Routes == SelectedArcs(Solver.attr, solution.values)
            IN /\ sequence' = Routes
               /\ IF Routes = <<>>
                  THEN /\ pc' = "done"
                       /\ UNCHANGED end_node_idx
                  ELSE /\ pc' = "search"
                       /\ end_node_idx' =
                              Solver.attr.D[Len(Solver.attr.D)]
    /\ UNCHANGED <<input, Graph, Solver, solution, routes, visited,
                   current_route, stack, start_k, first_run>>

Next ==
    \/ Parse
    \/ BuildGraph
    \/ BuildSolver
    \/ Solve
    \/ PrintResults
    \/ StartRoute
    \/ ExtendRoute
    \/ BacktrackRoute
    \/ PrintRoutes

Spec == Init /\ [][Next]_vars

\* ------------------------------------------- construction on any node lists
InitGraph ==
    /\ pc = "input"
    /\ \E depots \in NodeLists({Node("d", Position(0), 0, <<0, MaxTime>>, 0)},
                              MaxDepots) \ {<<>>},
          customers \in NodeLists({Node("c", Position(MaxCoord), 1,
                                        <<0, MaxTime>>, 1)}, MaxCustomers),
          stations \in NodeLists({Node("f", Position(1), 0, <<0, MaxTime>>, 0)},
                                 MaxStations),
          parameters \in {p \in Parameters : p.Q = MaxQ /\ p.r = 1},
          count \in 0..MaxDummy :
          input = [Depot_nodes |-> depots, Customer_nodes |-> customers,
                   RS_nodes |-> stations, parameters |-> parameters,
                   RS_dummy_count |-> count]
    /\ Graph = None
    /\ Solver = None
    /\ solution = Unsolved
    /\ RouteIdle

NextGraph == BuildGraph \/ BuildSolver

SpecGraph == InitGraph /\ [][NextGraph]_vars

\* ------------------------------------- single constraints on an assignment
MaxC == 3
MaxSample == 1

\* data_parser.Node: the default end of a time window
Window_E == 100000

Smaller(a, b) == IF a <= b THEN a ELSE b

Larger(a, b) == IF a >= b THEN a ELSE b

\* the values tried for a variable: those within MaxSample of lb or of ub
SampleValues(variable) ==
    (variable.lb..Smaller(variable.ub, variable.lb + MaxSample)) \union
    (Larger(variable.lb, variable.ub - MaxSample)..variable.ub)

\* the declared variable of a name
VariableNamed(M, name) ==
    CHOOSE variable \in Range(M.variables) : variable.name = name

\* the assignments of the variables of one constraint within their bounds
RECURSIVE SamplesFrom(_, _, _)
SamplesFrom(M, c, k) ==
    IF k > Len(c.vars) THEN {<<>>}
    ELSE {f @@ (c.vars[k] :> val) :
             f \in SamplesFrom(M, c, k + 1),
             val \in SampleValues(VariableNamed(M, c.vars[k]))}

\* the constraints over exactly the given kinds of variable
ConstraintsOfKinds(M, kinds) ==
    {c \in Range(M.linear_constraints) : Kinds(c) = kinds}

\* customers of the instances whose constraints are evaluated one by one
AssignCustomers ==
    {Node("c", Position(MaxCoord), demand, <<0, due>>, 1) :
        demand \in {0, 1, 2}, due \in {MaxTime, Window_E}}

\* one depot, one or two customers, at most one station
InitAssign ==
    /\ pc = "input"
    /\ \E capacity \in 1..MaxC,
          customers \in NodeLists(AssignCustomers, 2) \ {<<>>},
          stations \in NodeLists({Node("f", Position(MaxCoord), 0,
                                       <<0, MaxTime>>, 0)}, 1) :
          input = [Depot_nodes |-> <<Node("d", Position(0), 0,
                                          <<0, MaxTime>>, 0)>>,
                   Customer_nodes |-> customers, RS_nodes |-> stations,
                   parameters |-> [Q |-> MaxQ, C |-> capacity, r |-> 1,
                                   g |-> 1, v |-> 1],
                   RS_dummy_count |-> 1]
    /\ Graph = None
    /\ Solver = None
    /\ solution = Unsolved
    /\ RouteIdle

\* the assignments, within the bounds, of the variables of one constraint of
\* the given kinds
Assignments(M, kinds) ==
    UNION {SamplesFrom(M, c, 1) : c \in ConstraintsOfKinds(M, kinds)}

\* lines 143-150: the engine evaluates one load constraint at an assignment
AssignLoad ==
    /\ pc = "model"
    /\ \E val \in Assignments(Solver, {"u", "x"}) :
          solution' = [status |-> "assigned", values |-> val, objective |-> 0]
    /\ pc' = "assigned"
    /\ UNCHANGED <<input, Graph, Solver, sequence, end_node_idx, routes,
                   visited, current_route, stack, start_k, first_run>>

\* lines 122-129: the engine evaluates one travel-time constraint of a
\* customer or the depot at an assignment
AssignTime ==
    /\ pc = "model"
    /\ \E val \in Assignments(Solver, {"tao", "x"}) :
          solution' = [status |-> "assigned", values |-> val, objective |-> 0]
    /\ pc' = "assigned"
    /\ UNCHANGED <<input, Graph, Solver, sequence, end_node_idx, routes,
                   visited, current_route, stack, start_k, first_run>>

NextAssign ==
    \/ BuildGraph
    \/ BuildSolver
    \/ AssignLoad
    \/ AssignTime

SpecAssign == InitAssign /\ [][NextAssign]_vars

\* ------------------------------------------------------------ properties
IsChain(route, e) ==
    /\ route # <<>>
    /\ route[1].i = 0
    /\ route[Len(route)].j = e
    /\ \A m \in 1..(Len(route) - 1) : route[m].j = route[m + 1].i

\* C1: every reported route starts at node 0, ends at end_node_idx, and each
\* arc starts where the arc before it ends
RoutesAreChains ==
    \A k \in 1..Len(routes) : IsChain(routes[k], end_node_idx)

\* C2: no reported route contains the same arc label twice
RoutesRepeatNoArc ==
    \A k \in 1..Len(routes) :
        \A a, b \in 1..Len(routes[k]) : a # b => routes[k][a] # routes[k][b]

\* C3: a second reconstruction of the same labels, in any order, reports the
\* same set of routes as the first
ReconstructionOrderIndependent ==
    (pc = "done" /\ first_run # <<>>) => Range(routes) = first_run[1]

HasCycle(seq) ==
    \E m, n \in 1..Len(seq) :
        /\ m # n
        /\ seq[m].j = seq[n].i
        /\ seq[n].j = seq[m].i
        /\ seq[m].i # end_node_idx
        /\ seq[m].j # end_node_idx

\* C8: on every list of labels the reconstruction raises neither KeyError
\* (visited.remove) nor IndexError (current_route.pop) and reaches its end
ReconstructionTerminates ==
    [](pc \notin {"KeyError", "IndexError"}) /\ <>(pc = "done")

\* C8 witness: a search that entered a cycle which never reaches the end
\* depot has finished with no route
FinishedOnCycle ==
    /\ pc = "done"
    /\ routes = <<>>
    /\ HasCycle(sequence)
    /\ \E k \in 1..Len(sequence) :
          IsStart(sequence[k]) /\ \E m \in 1..Len(sequence) :
              Continues(sequence[k], sequence[m]) /\ sequence[m].j # 0

Solved == pc = "solved" /\ solution.status = "optimal"

\* number of selected arcs among the declared x_a_b with a in from, b in to
Selected(from, to) ==
    Cardinality({n \in DOMAIN solution.values :
                    n.i \in from /\ n.j \in to /\ 2 * solution.values[n] > 1})

AllIdx == 0..(Len(Graph.Nodes) - 1)

\* C4: in an optimal assignment every customer has exactly one selected
\* outgoing arc among all declared x_i_j
CustomerOutDegreeOne ==
    Solved => \A a \in Range(Graph.Customer_Idx) : Selected({a}, AllIdx) = 1

\* C5: in an optimal assignment every customer and station replica has as
\* many selected incoming as outgoing arcs among all declared x_i_j
FlowConserved ==
    Solved => \A a \in Range(Graph.Customer_Idx) \cup Range(Graph.RS_Idx) :
                 Selected(AllIdx, {a}) = Selected({a}, AllIdx)

OneCustomerInstance ==
    /\ Len(input.Depot_nodes) = 1
    /\ Len(input.Customer_nodes) = 1
    /\ input.RS_nodes = <<>>

TheDepot == input.Depot_nodes[1]
TheCustomer == input.Customer_nodes[1]
DepotCustomerDistance == Graph.distance_matrix[0][1]

\* the time windows never bind on start depot -> customer -> end depot
WindowsTrivial ==
    /\ TheCustomer.Window[1] <= TheDepot.Window[1]
    /\ TheDepot.Window[1] + TheDepot.ServiceTime + Graph.travel_time_matrix[0][1]
          <= TheCustomer.Window[2]
    /\ TheDepot.Window[1] + TheDepot.ServiceTime + Graph.travel_time_matrix[0][1]
          + TheCustomer.ServiceTime + Graph.travel_time_matrix[1][2]
          <= TheDepot.Window[2]

ScenarioB ==
    /\ OneCustomerInstance
    /\ WindowsTrivial
    /\ TheCustomer.Demand <= input.parameters.C

BatterySuffices ==
    2 * input.parameters.r * DepotCustomerDistance <= input.parameters.Q

DepotCustomerDepot == <<Label(0, 1), Label(1, 2)>>

MultiDepotRejected ==
    Len(input.Depot_nodes) > 1 => (Graph = None /\ Solver = None)

TypesAt(idx) == {Graph.Nodes[a + 1].Type : a \in Range(idx)}

Contiguous(idx, first) == \A k \in 1..Len(idx) : idx[k] = first + k - 1

\* C9: with one depot the node sequence is [depot] + customers + stations x R
\* + [depot], and the three index lists split 0..len-1 by node type
GraphLayout ==
    (pc = "graph" /\ Len(input.Depot_nodes) = 1) =>
        LET n == Len(Graph.Nodes)
            nc == Len(input.Customer_nodes)
            ns == Len(input.RS_nodes) * input.RS_dummy_count
        IN /\ n = 2 + nc + ns
           /\ Graph.Nodes = input.Depot_nodes \o input.Customer_nodes
                 \o [k \in 1..ns |->
                        input.RS_nodes[((k - 1) % Len(input.RS_nodes)) + 1]]
                 \o input.Depot_nodes
           /\ Graph.Depot_Idx = <<0, n - 1>>
           /\ Len(Graph.Customer_Idx) = nc /\ Contiguous(Graph.Customer_Idx, 1)
           /\ Len(Graph.RS_Idx) = ns /\ Contiguous(Graph.RS_Idx, 1 + nc)
           /\ Range(Graph.Depot_Idx) \cap Range(Graph.Customer_Idx) = {}
           /\ Range(Graph.Depot_Idx) \cap Range(Graph.RS_Idx) = {}
           /\ Range(Graph.Customer_Idx) \cap Range(Graph.RS_Idx) = {}
           /\ Range(Graph.Depot_Idx) \cup Range(Graph.Customer_Idx)
                 \cup Range(Graph.RS_Idx) = 0..(n - 1)
           /\ TypesAt(Graph.Depot_Idx) = {"d"}
           /\ TypesAt(Graph.Customer_Idx) \subseteq {"c"}
           /\ TypesAt(Graph.RS_Idx) \subseteq {"f"}

\* C9 witness: a graph of one depot, customers and replicated stations
ReplicatedGraphBuilt ==
    /\ pc = "graph"
    /\ Len(input.Depot_nodes) = 1
    /\ Len(input.Customer_nodes) >= 1
    /\ Len(input.RS_nodes) >= 2
    /\ input.RS_dummy_count >= 2

WindowTooEarly ==
    TheCustomer.Window[2] <
        TheDepot.Window[1] + TheDepot.ServiceTime + Graph.travel_time_matrix[0][1]

Evaluated(kinds) ==
    {c \in ConstraintsOfKinds(Solver, kinds) :
        Range(c.vars) \subseteq DOMAIN solution.values}

\* the arc variable of a load or travel-time constraint
ArcOf(c) == CHOOSE name \in Range(c.vars) : name.kind = "x"

DemandAt(a) == Graph.Nodes[a + 1].Demand

LoadAt(a) == solution.values[UName(a)]

\* C11 as stated: a load constraint with x_i_j = 1 holds exactly when
\* u_j >= u_i + demand_i
LoadForcesIncrease ==
    pc = "assigned" =>
        \A c \in Evaluated({"u", "x"}) :
            solution.values[ArcOf(c)] = 1 =>
                (Holds(c, solution.values) <=>
                    LoadAt(ArcOf(c).j) >= LoadAt(ArcOf(c).i) + DemandAt(ArcOf(c).i))

\* C11 amended: a load constraint with x_i_j = 1 holds exactly when
\* u_j <= u_i - demand_i
LoadForcesDecrease ==
    pc = "assigned" =>
        \A c \in Evaluated({"u", "x"}) :
            solution.values[ArcOf(c)] = 1 =>
                (Holds(c, solution.values) <=>
                    LoadAt(ArcOf(c).j) <= LoadAt(ArcOf(c).i) - DemandAt(ArcOf(c).i))

\* C11 witness: a used arc leaving a customer of positive demand whose load
\* constraint holds at the assigned loads
LoadedArcAssigned ==
    /\ pc = "assigned"
    /\ \E c \in Evaluated({"u", "x"}) :
          /\ solution.values[ArcOf(c)] = 1
          /\ DemandAt(ArcOf(c).i) > 0
          /\ LoadAt(ArcOf(c).j) > 0
          /\ Holds(c, solution.values)

\* C12: a travel-time constraint of a customer or the depot with x_i_j = 0
\* holds at every tao_i and tao_j inside the time windows of i and j
TimeSlackWhenUnused ==
    pc = "assigned" =>
        \A c \in Evaluated({"tao", "x"}) :
            solution.values[ArcOf(c)] = 0 => Holds(c, solution.values)

====
